---- MODULE Spec2Model ----
(***************************************************************************)
(* A model of linkcheck (src/linkcheck.go): the control loop of run, its   *)
(* pool of crawler goroutines, the two unbuffered channels between them,   *)
(* the SIGINT channel, the reconciliation pass over needs/crawled and the  *)
(* final report.                                                           *)
(*                                                                         *)
(* A Go string is a sequence of tokens: "http://h/a#f" is                  *)
(* <<"http://h/", "a", "#", "f">>.  The token "#" is the fragment          *)
(* delimiter of net/url.                                                   *)
(***************************************************************************)
EXTENDS Integers, Sequences, FiniteSets, TLC

VARIABLES
    site,        \* the web: fragment-free URL -> what an HTTP GET of it returns
    base,        \* run's parameter base
    crawlers,    \* run's parameter crawlers
    worker,      \* the crawler goroutines: position and URL held
    closed,      \* close(workerqueue) has been executed
    needs,       \* URL that was fetched -> list of URLs it links to
    crawled,     \* URL without fragment -> set of ids on the page
    queue,       \* list of URLs that need to be crawled
    queued,      \* set of URLs that have been queued already
    openFetchs,  \* how many fetches the loop is waiting on
    errs,        \* list of urlErr
    exitCode,    \* run's named result
    stopChan,    \* number of signals buffered in stopChan (capacity 1)
    output,      \* lines written to the io.Writer
    pc,          \* position of run: "loop", "reconcile", "report", "done"
    dispatched,  \* history: every URL sent on workerqueue, in order
    stopSeen     \* history: the loop has received from stopChan

vars == <<site, base, crawlers, worker, closed, needs, crawled, queue, queued,
          openFetchs, errs, exitCode, stopChan, output, pc, dispatched, stopSeen>>

----------------------------------------------------------------------------
(* Bounds of the model *)

MaxCrawlers == 2
MaxLinks == 2

----------------------------------------------------------------------------
(* Strings *)

\* strings.HasPrefix
HasPrefix(s, prefix) ==
    /\ Len(prefix) <= Len(s)
    /\ SubSeq(s, 1, Len(prefix)) = prefix

\* index of the first "#" of s, 0 when there is none (url.Parse splits there)
HashIndex(s) ==
    LET hs == {i \in 1..Len(s) : s[i] = "#"}
    IN  IF hs = {} THEN 0 ELSE CHOOSE i \in hs : \A j \in hs : i <= j

\* u, _ := url.Parse(s); u.Fragment
Fragment(s) ==
    LET i == HashIndex(s)
    IN  IF i = 0 THEN <<>> ELSE SubSeq(s, i + 1, Len(s))

\* u, _ := url.Parse(s); u.Fragment = ""; u.String()
ClearFragment(s) ==
    LET i == HashIndex(s)
    IN  IF i = 0 THEN s ELSE SubSeq(s, 1, i - 1)

----------------------------------------------------------------------------
(* The web the crawl runs against *)

Root  == <<"http://h/">>
PageA == <<"http://h/", "a">>
PageX == <<"http://x/">>
Pages == {Root, PageA, PageX}

\* the root URLs run is started with: main passes base.String(), which keeps
\* a fragment the user typed
Roots == {Root, Root \o <<"#", "f">>}

\* the href attribute values found on the pages
Hrefs == { <<"http://h/", "#", "f">>,
           <<"a">>,
           <<"http://x/">>,
           <<"http://x/", "#", "f">>,
           <<"http://x/", "#", "g">>,
           <<"mailto:", "m">>,
           <<"http://e/", "p">> }

\* the href attribute values found on the inner page: back to the root, to
\* the external page with a fragment it lacks, to the excluded host
InnerHrefs == { <<"http://h/", "#", "f">>,
                <<"http://x/", "#", "g">>,
                <<"http://e/", "p">> }

\* the id sets of a page: "f" is the one id a link may ask for and find
IdSets == SUBSET {"f"}

RECURSIVE SeqsUpTo(_, _)
SeqsUpTo(S, n) ==
    IF n = 0 THEN {<<>>}
    ELSE LET shorter == SeqsUpTo(S, n - 1)
         IN  shorter \cup {Append(s, x) : s \in shorter, x \in S}

NotFound == [status |-> "404 Not Found", html |-> FALSE, hrefs |-> <<>>, ids |-> {}]
Binary   == [status |-> "200 OK", html |-> FALSE, hrefs |-> <<>>, ids |-> {}]

HtmlPages(hrefLists, idSets) ==
    {[status |-> "200 OK", html |-> TRUE, hrefs |-> h, ids |-> i] :
        h \in hrefLists, i \in idSets}

\* what a GET of page p may return.  The root page carries up to MaxLinks
\* anchors and any of the id sets.  The inner page carries at most one
\* anchor, out of InnerHrefs; no href leads to it with a fragment, so its ids
\* are left out.
\* The external page carries one fixed anchor, to the inner page; without
\* the id it is, for the crawl, the same as a page that is not HTML.
Responses(p) ==
    {NotFound, Binary} \cup
        (IF p = Root THEN HtmlPages(SeqsUpTo(Hrefs, MaxLinks), IdSets)
         ELSE IF p = PageA THEN HtmlPages(SeqsUpTo(InnerHrefs, 1), {{}})
         ELSE HtmlPages({<< <<"http://h/", "a">> >>}, {{"f"}}))

Sites ==
    {[p \in Pages |-> IF p = Root THEN r ELSE IF p = PageA THEN a ELSE x] :
        r \in Responses(Root), a \in Responses(PageA), x \in Responses(PageX)}

----------------------------------------------------------------------------
(* fetch and its helpers *)

NoErr == <<>>

\* a nil map[string]bool, as against an empty one
NilIds == {"<nil>"}

invalidProtos == { <<"mailto:">>, <<"javascript:">>, <<"tel:">>, <<"sms:">> }

\* excludeLink, had it left out the loop over excludePaths
excludeLinkProtosOnly(ref) ==
    \E proto \in invalidProtos : HasPrefix(ref, proto)

\* the prefixes given with -exclude (main), or set by the test: a host that
\* serves none of the pages
excludePaths == { <<"http://e/">> }

excludeLink(ref) ==
    \/ \E proto \in invalidProtos : HasPrefix(ref, proto)
    \/ \E prefix \in excludePaths : HasPrefix(ref, prefix)

\* the hosts an HTTP GET can reach
HttpHosts == {"http://h/", "http://x/", "http://e/"}

\* url.Parse(ref) yields an absolute URL (it has a scheme)
IsAbs(ref) ==
    ref # <<>> /\ Head(ref) \in HttpHosts \cup {"mailto:"}

\* base.ResolveReference(u).String(): an absolute ref stands for itself, an
\* empty or fragment-only ref is the base without its fragment plus the ref,
\* a relative path replaces the last segment of the base's path (every page
\* of the web sits directly under its host)
parseURL(baseurl, ref) ==
    IF IsAbs(ref) THEN ref
    ELSE IF ref = <<>> \/ Head(ref) = "#" THEN ClearFragment(baseurl) \o ref
    ELSE <<Head(baseurl)>> \o ref

\* the href of every anchor of the document, resolved, in document order
getLinks(url, hrefs) ==
    [i \in 1..Len(hrefs) |-> parseURL(url, hrefs[i])]

\* the loop of fetch over getLinks: the refs excludeLink does not exclude
Kept(ref) == ~excludeLink(ref)
KeepLinks(refs) == SelectSeq(refs, Kept)

\* http.Get(url): the fragment is not part of the request; a scheme other
\* than http is a transport error, an unknown path a 404
Get(url) ==
    LET p == ClearFragment(url)
    IN  IF p = <<>> \/ Head(p) \notin HttpHosts
            THEN [err |-> <<"unsupported protocol scheme">>, res |-> NotFound]
        ELSE IF p \in DOMAIN site THEN [err |-> NoErr, res |-> site[p]]
        ELSE [err |-> NoErr, res |-> NotFound]

\* fetch, had it returned nil ids for a body that is not HTML
fetchNilIds(url, processLinks) ==
    LET got == Get(url)
        res == got.res
    IN  IF got.err # NoErr
            THEN [links |-> <<>>, ids |-> NilIds, err |-> got.err]
        ELSE IF res.status # "200 OK"
            THEN [links |-> <<>>, ids |-> NilIds, err |-> <<res.status>>]
        ELSE IF ~res.html
            THEN [links |-> <<>>, ids |-> NilIds, err |-> NoErr]
        ELSE [links |-> IF processLinks THEN KeepLinks(getLinks(url, res.hrefs))
                        ELSE <<>>,
              ids   |-> res.ids,
              err   |-> NoErr]

fetch(url, processLinks) ==
    LET got == Get(url)
        res == got.res
    IN  IF got.err # NoErr
            THEN [links |-> <<>>, ids |-> NilIds, err |-> got.err]
        ELSE IF res.status # "200 OK"
            THEN [links |-> <<>>, ids |-> NilIds, err |-> <<res.status>>]
        ELSE IF ~res.html
            THEN [links |-> <<>>, ids |-> {}, err |-> NoErr]
        ELSE [links |-> IF processLinks THEN KeepLinks(getLinks(url, res.hrefs))
                        ELSE <<>>,
              ids   |-> res.ids,
              err   |-> NoErr]

----------------------------------------------------------------------------
(* run: construction *)

Idle == [at |-> "recv", url |-> <<>>]

EmptyMap == [u \in {} |-> {}]

Init ==
    /\ site \in Sites
    /\ base \in Roots
    /\ crawlers \in 1..MaxCrawlers
    /\ worker = [w \in 1..crawlers |-> Idle]
    /\ closed = FALSE
    /\ needs = EmptyMap
    /\ crawled = EmptyMap
    /\ queue = <<base>>
    /\ queued = {base}
    /\ openFetchs = 0
    /\ errs = <<>>
    /\ exitCode = 0
    /\ stopChan = 0
    /\ output = <<>>
    /\ pc = "loop"
    /\ dispatched = <<>>
    /\ stopSeen = FALSE

----------------------------------------------------------------------------
(* run: the control loop *)

\* LoopCond, had it kept the loop going after a SIGINT until every fetch
\* in flight has reported
LoopCondDrain == openFetchs > 0 \/ (Len(queue) > 0 /\ exitCode = 0)

\* LoopCond, had it left out the test exitCode == 0
LoopCondNoExit == openFetchs > 0 \/ Len(queue) > 0

\* LoopCond, had it left out the test openFetchs > 0
LoopCondQueueOnly == Len(queue) > 0 /\ exitCode = 0

\* LoopCond, had it tested openFetchs >= 0
LoopCondNeverDone == (openFetchs >= 0 \/ Len(queue) > 0) /\ exitCode = 0

\* the condition of the for statement
LoopCond == (openFetchs > 0 \/ Len(queue) > 0) /\ exitCode = 0

\* Dispatch, had it left out openFetchs++
DispatchUncounted(w) ==
    /\ pc = "loop"
    /\ LoopCond
    /\ Len(queue) > 0
    /\ worker[w].at = "recv"
    /\ worker' = [worker EXCEPT ![w] = [at |-> "fetch", url |-> Head(queue)]]
    /\ queue' = Tail(queue)
    /\ dispatched' = Append(dispatched, Head(queue))
    /\ UNCHANGED <<site, base, crawlers, closed, needs, crawled, queued, errs,
                   exitCode, stopChan, output, pc, stopSeen, openFetchs>>

\* case loopqueue <- addURL, taken together with the receive of an idle
\* crawler; loopqueue is nil, and the case blocks, when the queue is empty
Dispatch(w) ==
    /\ pc = "loop"
    /\ LoopCond
    /\ Len(queue) > 0
    /\ worker[w].at = "recv"
    /\ worker' = [worker EXCEPT ![w] = [at |-> "fetch", url |-> Head(queue)]]
    /\ openFetchs' = openFetchs + 1
    /\ queue' = Tail(queue)
    /\ dispatched' = Append(dispatched, Head(queue))
    /\ UNCHANGED <<site, base, crawlers, closed, needs, crawled, queued, errs,
                   exitCode, stopChan, output, pc, stopSeen>>

\* Enqueue, had it forgotten queued[link] = true
RECURSIVE EnqueueUnmarked(_, _, _)
EnqueueUnmarked(links, q, qd) ==
    IF links = <<>> THEN [queue |-> q, queued |-> qd]
    ELSE LET link == ClearFragment(Head(links))
         IN  IF link \notin qd
                 THEN EnqueueUnmarked(Tail(links), Append(q, link), qd)
             ELSE EnqueueUnmarked(Tail(links), q, qd)

\* Enqueue, had it left the fragment on the link
RECURSIVE EnqueueWithFragment(_, _, _)
EnqueueWithFragment(links, q, qd) ==
    IF links = <<>> THEN [queue |-> q, queued |-> qd]
    ELSE LET link == Head(links)
         IN  IF link \notin qd
                 THEN EnqueueWithFragment(Tail(links), Append(q, link), qd \cup {link})
             ELSE EnqueueWithFragment(Tail(links), q, qd)

\* the loop over result.links: each link, its fragment cleared, is marked
\* and appended unless it is marked already
RECURSIVE Enqueue(_, _, _)
Enqueue(links, q, qd) ==
    IF links = <<>> THEN [queue |-> q, queued |-> qd]
    ELSE LET link == ClearFragment(Head(links))
         IN  IF link \notin qd
                 THEN Enqueue(Tail(links), Append(q, link), qd \cup {link})
             ELSE Enqueue(Tail(links), q, qd)

\* m[k] = v
Put(m, k, v) == [u \in DOMAIN m \cup {k} |-> IF u = k THEN v ELSE m[u]]

\* the fetchResult crawler w sends for the URL it holds
ResultOf(w) ==
    LET url == worker[w].url
        processLinks == HasPrefix(url, base)
        r == fetch(url, processLinks)
    IN  [url |-> url, links |-> r.links, ids |-> r.ids, err |-> r.err]

\* FoldError, had a failed fetch ended the run with exit code 1
FoldErrorFatal(result) ==
    /\ errs' = Append(errs, [url |-> result.url, err |-> result.err])
    /\ exitCode' = 1
    /\ UNCHANGED <<crawled, needs, queue, queued>>

\* FoldError, had it left out the break
FoldErrorNoBreak(result) ==
    /\ errs' = Append(errs, [url |-> result.url, err |-> result.err])
    /\ crawled' = Put(crawled, result.url, result.ids)
    /\ UNCHANGED <<needs, queue, queued, exitCode>>

\* FoldError, had it dropped the error
FoldErrorSilent(result) ==
    UNCHANGED <<errs, crawled, needs, queue, queued, exitCode>>

\* if result.err != nil: the error is recorded and the case is left
FoldError(result) ==
    /\ errs' = Append(errs, [url |-> result.url, err |-> result.err])
    /\ UNCHANGED <<crawled, needs, queue, queued, exitCode>>

\* FoldSuccess, had it left out the test of the root prefix
FoldSuccessAnyURL(result) ==
    /\ crawled' = Put(crawled, result.url, result.ids)
    /\ \E e \in {Enqueue(result.links, queue, queued)} :
          /\ needs' = Put(needs, result.url, result.links)
          /\ queue' = e.queue
          /\ queued' = e.queued
    /\ UNCHANGED <<errs, exitCode>>

\* FoldSuccess, had it recorded the ids after the test of the root prefix
FoldSuccessCrawledLate(result) ==
    /\ IF ~HasPrefix(result.url, base)
           THEN UNCHANGED <<crawled, needs, queue, queued>>
       ELSE \E e \in {Enqueue(result.links, queue, queued)} :
                /\ crawled' = Put(crawled, result.url, result.ids)
                /\ needs' = Put(needs, result.url, result.links)
                /\ queue' = e.queue
                /\ queued' = e.queued
    /\ UNCHANGED <<errs, exitCode>>

\* the rest of the case: the ids are recorded and, for a URL under the root,
\* its links are recorded and queued
FoldSuccess(result) ==
    /\ crawled' = Put(crawled, result.url, result.ids)
    /\ IF ~HasPrefix(result.url, base)
           THEN UNCHANGED <<needs, queue, queued>>
       ELSE \E e \in {Enqueue(result.links, queue, queued)} :
                /\ needs' = Put(needs, result.url, result.links)
                /\ queue' = e.queue
                /\ queued' = e.queued
    /\ UNCHANGED <<errs, exitCode>>

\* case result := <-fetchResults, taken together with the send of crawler w,
\* whose fetch has returned
Result(w) ==
    /\ pc = "loop"
    /\ LoopCond
    /\ worker[w].at = "fetch"
    /\ worker' = [worker EXCEPT ![w] = Idle]
    /\ openFetchs' = openFetchs - 1
    /\ \E result \in {ResultOf(w)} :
          IF result.err # NoErr THEN FoldError(result) ELSE FoldSuccess(result)
    /\ UNCHANGED <<site, base, crawlers, closed, stopChan, output, pc,
                   dispatched, stopSeen>>

\* links, ids, err := fetch(url, processLinks) has returned in crawler w,
\* which now blocks in its send on fetchResults; the loop sees nothing of it
Fetch(w) ==
    /\ worker[w].at = "fetch"
    /\ worker' = [worker EXCEPT ![w] = [at |-> "send", url |-> worker[w].url]]
    /\ UNCHANGED <<site, base, crawlers, closed, needs, crawled, queue, queued,
                   openFetchs, errs, exitCode, stopChan, output, pc,
                   dispatched, stopSeen>>

\* case result := <-fetchResults, taken together with the send of crawler w,
\* which blocks in it
Deliver(w) ==
    /\ pc = "loop"
    /\ LoopCond
    /\ worker[w].at = "send"
    /\ worker' = [worker EXCEPT ![w] = Idle]
    /\ openFetchs' = openFetchs - 1
    /\ \E result \in {ResultOf(w)} :
          IF result.err # NoErr THEN FoldError(result) ELSE FoldSuccess(result)
    /\ UNCHANGED <<site, base, crawlers, closed, stopChan, output, pc,
                   dispatched, stopSeen>>

\* signal.Notify(stopChan, syscall.SIGINT): a SIGINT is buffered unless the
\* buffer of one is full; once the loop condition is false nothing reads the
\* channel any more, and a SIGINT changes nothing
Sigint ==
    /\ pc = "loop"
    /\ LoopCond
    /\ stopChan = 0
    /\ stopChan' = 1
    /\ UNCHANGED <<site, base, crawlers, worker, closed, needs, crawled, queue,
                   queued, openFetchs, errs, exitCode, output, pc, dispatched,
                   stopSeen>>

\* case <-stopChan
Stop ==
    /\ pc = "loop"
    /\ LoopCond
    /\ stopChan > 0
    /\ stopChan' = stopChan - 1
    /\ exitCode' = 3
    /\ stopSeen' = TRUE
    /\ UNCHANGED <<site, base, crawlers, worker, closed, needs, crawled, queue,
                   queued, openFetchs, errs, output, pc, dispatched>>

Exited == [at |-> "exit", url |-> <<>>]

\* ExitLoop, had a cancelled run gone straight to the output
ExitLoopSkipReconcile ==
    /\ pc = "loop"
    /\ ~LoopCond
    /\ closed' = TRUE
    /\ worker' = [w \in DOMAIN worker |->
                    IF worker[w].at = "recv" THEN Exited ELSE worker[w]]
    /\ pc' = IF exitCode = 3 THEN "report" ELSE "reconcile"
    /\ UNCHANGED <<site, base, crawlers, needs, crawled, queue, queued,
                   openFetchs, errs, exitCode, stopChan, output, dispatched,
                   stopSeen>>

\* the for condition is false: close(workerqueue), on which every crawler
\* blocked in its receive leaves its range loop and returns; a crawler that
\* holds a URL or a result stays where it is
ExitLoop ==
    /\ pc = "loop"
    /\ ~LoopCond
    /\ closed' = TRUE
    /\ worker' = [w \in DOMAIN worker |->
                    IF worker[w].at = "recv" THEN Exited ELSE worker[w]]
    /\ pc' = "reconcile"
    /\ UNCHANGED <<site, base, crawlers, needs, crawled, queue, queued,
                   openFetchs, errs, exitCode, stopChan, output, dispatched,
                   stopSeen>>

----------------------------------------------------------------------------
(* run: reconciliation and report *)

\* CrawledNil, had it tested len(crawled[link]) == 0
CrawledNilOrEmpty(link) ==
    link \notin DOMAIN crawled \/ crawled[link] = NilIds \/ crawled[link] = {}

\* crawled[link] == nil: no entry, or a nil id set
CrawledNil(link) == link \notin DOMAIN crawled \/ crawled[link] = NilIds

\* CheckLink, had it left out the test frag != ""
CheckLinkAnyFrag(srcURL, destURL) ==
    LET frag == Fragment(destURL)
        link == ClearFragment(destURL)
    IN  IF CrawledNil(link)
            THEN << [url |-> srcURL, err |-> <<"failed to fetch: ">> \o destURL] >>
        ELSE IF frag \notin {<<id>> : id \in crawled[link]}
            THEN << [url |-> srcURL, err |-> <<"missing fragment: ">> \o destURL] >>
        ELSE <<>>

\* the body of the inner loop: the urlErrs added for one link of srcURL
CheckLink(srcURL, destURL) ==
    LET frag == Fragment(destURL)
        link == ClearFragment(destURL)
    IN  IF CrawledNil(link)
            THEN << [url |-> srcURL, err |-> <<"failed to fetch: ">> \o destURL] >>
        ELSE IF frag # <<>> /\ frag \notin {<<id>> : id \in crawled[link]}
            THEN << [url |-> srcURL, err |-> <<"missing fragment: ">> \o destURL] >>
        ELSE <<>>

RECURSIVE CheckLinks(_, _)
CheckLinks(srcURL, destURLs) ==
    IF destURLs = <<>> THEN <<>>
    ELSE CheckLink(srcURL, Head(destURLs)) \o CheckLinks(srcURL, Tail(destURLs))

RECURSIVE CheckSources(_)
CheckSources(srcURLs) ==
    IF srcURLs = <<>> THEN <<>>
    ELSE CheckLinks(Head(srcURLs), needs[Head(srcURLs)])
            \o CheckSources(Tail(srcURLs))

\* the orders in which range may walk a map with the keys S
Orders(S) ==
    {o \in [1..Cardinality(S) -> S] : \A i, j \in 1..Cardinality(S) : o[i] = o[j] => i = j}

\* Reconcile, had it put its urlErrs before those of the loop
ReconcilePrepend ==
    /\ pc = "reconcile"
    /\ \E order \in Orders(DOMAIN needs) :
           errs' = CheckSources(order) \o errs
    /\ pc' = "report"
    /\ UNCHANGED <<site, base, crawlers, worker, closed, needs, crawled, queue,
                   queued, openFetchs, exitCode, stopChan, output, dispatched,
                   stopSeen>>

\* for srcURL, destURLs := range needs
Reconcile ==
    /\ pc = "reconcile"
    /\ \E order \in Orders(DOMAIN needs) :
           errs' = errs \o CheckSources(order)
    /\ pc' = "report"
    /\ UNCHANGED <<site, base, crawlers, worker, closed, needs, crawled, queue,
                   queued, openFetchs, exitCode, stopChan, output, dispatched,
                   stopSeen>>

\* fmt.Fprintf(output, "%s: %v\n", err.url, err.err)
Line(e) == e.url \o <<": ">> \o e.err \o <<"\n">>

\* Report, had it left out the test exitCode == 0
ReportDefectsFirst ==
    /\ pc = "report"
    /\ output' = [i \in 1..Len(errs) |-> Line(errs[i])]
    /\ exitCode' = IF Len(errs) > 0 THEN 1 ELSE exitCode
    /\ pc' = "done"
    /\ UNCHANGED <<site, base, crawlers, worker, closed, needs, crawled, queue,
                   queued, openFetchs, errs, stopChan, dispatched, stopSeen>>

\* the output loop, the exit code and the return
Report ==
    /\ pc = "report"
    /\ output' = [i \in 1..Len(errs) |-> Line(errs[i])]
    /\ exitCode' = IF Len(errs) > 0 /\ exitCode = 0 THEN 1 ELSE exitCode
    /\ pc' = "done"
    /\ UNCHANGED <<site, base, crawlers, worker, closed, needs, crawled, queue,
                   queued, openFetchs, errs, stopChan, dispatched, stopSeen>>

----------------------------------------------------------------------------

Next ==
    \/ \E w \in 1..crawlers : Dispatch(w)
    \/ \E w \in 1..crawlers : Result(w)
    \/ Sigint
    \/ Stop
    \/ ExitLoop
    \/ Reconcile
    \/ Report

Spec == Init /\ [][Next]_vars

\* a run that no SIGINT interrupts, in which every fetch returns and every
\* goroutine that can take a step is scheduled
NextNoCancel ==
    \/ \E w \in 1..crawlers : Dispatch(w)
    \/ \E w \in 1..crawlers : Result(w)
    \/ ExitLoop
    \/ Reconcile
    \/ Report

LiveSpec == Init /\ [][NextNoCancel]_vars /\ WF_vars(NextNoCancel)

\* the same run with the return of fetch in a crawler and the receive of its
\* result by the loop as two steps, started on a root without fragment
StepInit == Init /\ base = Root

StepNext ==
    \/ \E w \in 1..crawlers : Dispatch(w)
    \/ \E w \in 1..crawlers : Fetch(w)
    \/ \E w \in 1..crawlers : Deliver(w)
    \/ Sigint
    \/ Stop
    \/ ExitLoop
    \/ Reconcile
    \/ Report

StepSpec == StepInit /\ [][StepNext]_vars

----------------------------------------------------------------------------
(* Helpers of the properties *)

Range(seq) == {seq[i] : i \in DOMAIN seq}

Occ(seq, x) == Cardinality({i \in DOMAIN seq : seq[i] = x})

NoDuplicate(seq) == \A i, j \in DOMAIN seq : seq[i] = seq[j] => i = j

FailedToFetch(link) == <<"failed to fetch: ">> \o link
MissingFragment(link) == <<"missing fragment: ">> \o link

\* e was added by the reconciliation pass, not by the loop
IsReconcileDefect(e) ==
    e.err # <<>> /\ Head(e.err) \in {"failed to fetch: ", "missing fragment: "}

\* the fetch errors among errs, in order
RECURSIVE FetchErrors(_)
FetchErrors(es) ==
    IF es = <<>> THEN <<>>
    ELSE IF IsReconcileDefect(Head(es)) THEN FetchErrors(Tail(es))
    ELSE <<Head(es)>> \o FetchErrors(Tail(es))

Returned == pc = "done"

\* the loop has folded the outcome of the fetch of u
Processed(u) ==
    \/ u \in DOMAIN crawled
    \/ \E i \in DOMAIN errs : errs[i].url = u /\ ~IsReconcileDefect(errs[i])

----------------------------------------------------------------------------
(* C1 *)

\* C1: a URL is appended to the queue at most once in a run: the URLs handed
\* to the crawlers so far followed by the URLs still waiting hold no URL
\* twice, each of them is in the queued set, and so no URL is dispatched (and
\* fetched) more than once.
C1_QueuedAtMostOnce ==
    /\ NoDuplicate(dispatched \o queue)
    /\ Range(dispatched \o queue) = queued

\* two pages link to the same URL, which is not the root, two crawlers ran
\* and the URL went to a crawler
C1_Witness ==
    /\ Returned /\ ~stopSeen /\ crawlers = 2
    /\ \E s1, s2 \in DOMAIN needs :
         \E i \in DOMAIN needs[s1], j \in DOMAIN needs[s2] :
            /\ s1 # s2
            /\ ClearFragment(needs[s1][i]) = ClearFragment(needs[s2][j])
            /\ ClearFragment(needs[s1][i]) \in Range(dispatched)
            /\ ClearFragment(needs[s1][i]) # base

----------------------------------------------------------------------------
(* C2 *)

\* C2: with no cancellation and every fetch returning, the control loop
\* ends, on any site, cycles included: the run reaches the end with the queue
\* empty and no fetch in flight, so the loop and the crawlers never block
\* each other for good on workerqueue and fetchResults.
C2_Terminates ==
    <>(Returned /\ Len(queue) = 0 /\ openFetchs = 0
         /\ \A w \in DOMAIN worker : worker[w].at = "exit")

\* a finished crawl of a site with a cycle between two pages
C2_Witness ==
    /\ Returned /\ Len(queue) = 0 /\ openFetchs = 0
    /\ \E s1, s2 \in DOMAIN needs :
          /\ s1 # s2
          /\ s2 \in {ClearFragment(l) : l \in Range(needs[s1])}
          /\ s1 \in {ClearFragment(l) : l \in Range(needs[s2])}

----------------------------------------------------------------------------
(* C3 *)

\* C3: once reconciliation has run, for every source and every link recorded
\* for it in needs, errs holds, per occurrence of the link in the source's
\* list: one "failed to fetch: <link>" against the source when the link
\* without its fragment has no entry in crawled; otherwise one
\* "missing fragment: <link>" when the fragment is not empty and is no id of
\* the target; otherwise nothing.  Reconciliation adds nothing else.
C3_ReconcilerExact ==
    pc \in {"report", "done"} =>
        /\ \A src \in DOMAIN needs : \A link \in Range(needs[src]) :
             LET target == ClearFragment(link)
                 frag == Fragment(link)
                 n == Occ(needs[src], link)
                 failed == Occ(errs, [url |-> src, err |-> FailedToFetch(link)])
                 missing == Occ(errs, [url |-> src, err |-> MissingFragment(link)])
             IN  IF target \notin DOMAIN crawled
                     THEN failed = n /\ missing = 0
                 ELSE IF frag # <<>> /\ ~ \E id \in crawled[target] : frag = <<id>>
                     THEN failed = 0 /\ missing = n
                 ELSE failed = 0 /\ missing = 0
        /\ \A i \in DOMAIN errs :
             IsReconcileDefect(errs[i]) =>
                /\ errs[i].url \in DOMAIN needs
                /\ \E link \in Range(needs[errs[i].url]) :
                      errs[i].err \in {FailedToFetch(link), MissingFragment(link)}

\* a run whose reconciliation met the three cases
C3_Witness ==
    /\ Returned
    /\ \E i, j \in DOMAIN errs :
          /\ Head(errs[i].err) = "failed to fetch: "
          /\ Head(errs[j].err) = "missing fragment: "
    /\ \E src \in DOMAIN needs : \E link \in Range(needs[src]) :
          \A i \in DOMAIN errs : errs[i].url = src =>
                errs[i].err \notin {FailedToFetch(link), MissingFragment(link)}

----------------------------------------------------------------------------
(* C4 *)

\* C4: run returns 3 whenever the loop received the cancellation signal,
\* whatever the defects; otherwise 1 when there is at least one defect and 0
\* when there is none.
C4_ExitCode ==
    Returned =>
        exitCode = IF stopSeen THEN 3
                   ELSE IF Len(errs) > 0 THEN 1
                   ELSE 0

\* a cancelled run that found defects
C4_Witness ==
    Returned /\ stopSeen /\ Len(errs) > 0 /\ Len(output) > 0 /\ exitCode = 3

----------------------------------------------------------------------------
(* C5 *)

\* C5 as claimed: once the loop has received the cancellation signal it
\* exits only with no fetch in flight, every dispatched fetch having
\* reported.
C5_DrainsBeforeExit ==
    (stopSeen /\ pc # "loop") =>
        /\ openFetchs = 0
        /\ \A w \in DOMAIN worker : worker[w].at # "fetch"

\* C5 as amended: once the loop has received the cancellation signal it
\* exits at once, whatever the in-flight count: it receives no further
\* result, so crawled, needs, the fetch errors and the in-flight count stay
\* as they were at the signal, and a crawler that holds a URL keeps it for
\* good; what was folded in before the signal is kept.
C5_ExitsAtOnce ==
    [][stopSeen =>
         /\ openFetchs' = openFetchs
         /\ crawled' = crawled
         /\ needs' = needs
         /\ FetchErrors(errs') = FetchErrors(errs)
         /\ \A w \in DOMAIN worker :
               worker[w].at = "fetch" => worker'[w] = worker[w]
         /\ pc = "loop" => (pc' = "reconcile" \/ stopChan' # stopChan)]_vars

\* a cancelled run that returned with a fetch in flight, and reported the
\* link to that page as failed although the page is there
C5_Witness ==
    /\ Returned /\ stopSeen /\ openFetchs > 0
    /\ \E w \in DOMAIN worker :
          /\ worker[w].at = "fetch"
          /\ ResultOf(w).err = NoErr
          /\ worker[w].url \notin DOMAIN crawled
          /\ \E i \in DOMAIN errs :
                /\ IsReconcileDefect(errs[i])
                /\ Head(errs[i].err) = "failed to fetch: "
                /\ ClearFragment(Tail(errs[i].err)) = worker[w].url

----------------------------------------------------------------------------
(* C6 *)

\* C6: once the loop has received the cancellation signal, no URL is handed
\* to a crawler any more, even when the queue is not empty.
C6_NoDispatchAfterStop ==
    [][stopSeen =>
         /\ dispatched' = dispatched
         /\ queue' = queue
         /\ \A w \in DOMAIN worker :
               worker'[w].at = "fetch" => worker[w] = worker'[w]]_vars

\* a cancelled run that returned with URLs left in the queue and a crawler
\* free to take them
C6_Witness ==
    /\ Returned /\ stopSeen /\ Len(queue) > 0
    /\ \E w \in DOMAIN worker : worker[w].at = "exit"

----------------------------------------------------------------------------
(* C7 *)

UnderRoot(u) == HasPrefix(u, base)

\* what the site answers for u, as a crawler fetches it
Outcome(u) == fetch(u, UnderRoot(u))

\* the URLs the links of u lead to, when u is there and under the root
Targets(u) ==
    IF UnderRoot(u) /\ Outcome(u).err = NoErr
        THEN {ClearFragment(l) : l \in Range(Outcome(u).links)}
    ELSE {}

\* the URLs reachable from R by the links of pages under the root
RECURSIVE Reachable(_)
Reachable(R) ==
    LET more == R \cup UNION {Targets(u) : u \in R}
    IN  IF more = R THEN R ELSE Reachable(more)

\* the defects of the site, read off the site alone
SiteDefects ==
    LET R == Reachable({base})
        sources == {s \in R : UnderRoot(s) /\ Outcome(s).err = NoErr}
    IN  {[url |-> u, err |-> Outcome(u).err] : u \in {v \in R : Outcome(v).err # NoErr}}
        \cup
        {[url |-> sl[1], err |-> FailedToFetch(sl[2])] :
            sl \in {x \in UNION {{<<s, l>> : l \in Range(Outcome(s).links)} : s \in sources} :
                      Outcome(ClearFragment(x[2])).err # NoErr}}
        \cup
        {[url |-> sl[1], err |-> MissingFragment(sl[2])] :
            sl \in {x \in UNION {{<<s, l>> : l \in Range(Outcome(s).links)} : s \in sources} :
                      /\ Outcome(ClearFragment(x[2])).err = NoErr
                      /\ Fragment(x[2]) # <<>>
                      /\ \A id \in Outcome(ClearFragment(x[2])).ids :
                            Fragment(x[2]) # <<id>>}}

\* C7: with no cancellation, the set of defects run writes is a function of
\* the site and the root alone: it is the same for every number of crawlers
\* and every interleaving of dispatches and results.
C7_DefectsOfSiteOnly ==
    (Returned /\ ~stopSeen) =>
        /\ Range(errs) = SiteDefects
        /\ Range(output) = {d.url \o <<": ">> \o d.err \o <<"\n">> : d \in SiteDefects}

\* two crawlers, two failed fetches whose results came in the order opposite
\* to their dispatch
C7_Witness ==
    /\ Returned /\ ~stopSeen /\ crawlers = 2
    /\ \E i, j \in DOMAIN dispatched : \E k, l \in DOMAIN errs :
          /\ i < j /\ l < k
          /\ ~IsReconcileDefect(errs[k]) /\ ~IsReconcileDefect(errs[l])
          /\ errs[k].url = dispatched[i]
          /\ errs[l].url = dispatched[j]

----------------------------------------------------------------------------
(* C8 *)

\* the loop takes the result of crawler w in this step
Receives(w) == worker[w].at = "fetch" /\ worker'[w].at = "recv"

\* C8: when the loop processes an outcome that carries an error for URL U it
\* appends the one urlErr (U, error) to errs and changes none of crawled,
\* needs, queue and queued; and the line "<U>: <error>" is in the output of
\* the run.
C8_ErrorOutcome ==
    /\ [][\A w \in DOMAIN worker :
            (Receives(w) /\ Outcome(worker[w].url).err # NoErr) =>
                /\ errs' = Append(errs, [url |-> worker[w].url,
                                         err |-> Outcome(worker[w].url).err])
                /\ crawled' = crawled
                /\ needs' = needs
                /\ queue' = queue
                /\ queued' = queued]_vars
    /\ [](Returned =>
            \A i \in DOMAIN errs :
                ~IsReconcileDefect(errs[i]) =>
                    \E k \in DOMAIN output :
                        output[k] = errs[i].url \o <<": ">> \o errs[i].err \o <<"\n">>)

\* a finished run in which the fetch of a page other than the root failed
C8_Witness ==
    /\ Returned
    /\ \E i \in DOMAIN errs :
          /\ ~IsReconcileDefect(errs[i])
          /\ errs[i].url # base
          /\ errs[i].url \notin DOMAIN crawled
          /\ errs[i].url \in queued
    /\ DOMAIN crawled # {}

----------------------------------------------------------------------------
(* C9 *)

\* C9: with no cancellation, every URL that enters the queued set is
\* eventually handed to a crawler and has its outcome processed by the loop,
\* whatever the number of fetches that failed: no URL ever leaves the queued
\* set, and from some point on every URL in it has been dispatched and
\* processed.
C9_EveryQueuedProcessed ==
    /\ [][queued \subseteq queued']_vars
    /\ <>[](\A u \in queued : u \in Range(dispatched) /\ Processed(u))

\* one crawler: a fetch failed, and a URL dispatched after it was crawled
C9_Witness ==
    /\ Returned /\ crawlers = 1
    /\ \E i, j \in DOMAIN dispatched :
          /\ i < j
          /\ \E k \in DOMAIN errs :
                errs[k].url = dispatched[i] /\ ~IsReconcileDefect(errs[k])
          /\ dispatched[j] \in DOMAIN crawled

----------------------------------------------------------------------------
(* C10 *)

\* C10: a URL that is not under the root is fetched with link extraction
\* off, and processing its outcome adds nothing to needs, queue or queued:
\* every key of needs is under the root, and every queued URL is the root or
\* a link, its fragment cleared, recorded for a page under the root.
C10_ExternalNotTraversed ==
    /\ [](\A s \in DOMAIN needs : HasPrefix(s, base))
    /\ [](\A u \in queued :
            \/ u = base
            \/ \E s \in DOMAIN needs :
                  /\ HasPrefix(s, base)
                  /\ \E l \in Range(needs[s]) : u = ClearFragment(l))
    /\ [](\A w \in DOMAIN worker :
            (worker[w].at = "fetch" /\ ~HasPrefix(worker[w].url, base)) =>
                ResultOf(w).links = <<>>)
    /\ [][\A w \in DOMAIN worker :
            (Receives(w) /\ ~HasPrefix(worker[w].url, base)) =>
                /\ needs' = needs
                /\ queue' = queue
                /\ queued' = queued]_vars

\* the external page, which has an anchor to the inner page, was crawled,
\* and the inner page was never queued
C10_Witness ==
    /\ Returned /\ base = Root
    /\ PageX \in DOMAIN crawled
    /\ site[PageX].html /\ site[PageX].hrefs # <<>>
    /\ site[PageA].status = "200 OK"
    /\ PageA \notin queued

----------------------------------------------------------------------------
(* C11 *)

\* the prefixes to ignore
IgnoredPrefixes == invalidProtos \cup excludePaths

\* link l starts with one of the prefixes to ignore
Excluded(l) == \E prefix \in IgnoredPrefixes : HasPrefix(l, prefix)

\* the resolved hrefs of page p that are to be ignored
Dropped(p) ==
    IF p \in DOMAIN site /\ site[p].html
        THEN {l \in Range(getLinks(p, site[p].hrefs)) : Excluded(l)}
    ELSE {}

\* C11: a link that starts with a configured excluded prefix, or with one of
\* mailto:, javascript:, tel:, sms:, is never recorded in needs, never
\* queued, never held by a crawler, never a key of crawled, and never named
\* by a defect, either as the URL that failed or as the link of a source,
\* even when a fetch of it would fail.
C11_ExcludedIgnored ==
    /\ \A s \in DOMAIN needs : \A l \in Range(needs[s]) : ~Excluded(l)
    /\ \A u \in queued : ~Excluded(u)
    /\ Range(queue) \cup Range(dispatched) \cup DOMAIN crawled \subseteq queued
    /\ \A w \in DOMAIN worker : ~Excluded(worker[w].url)
    /\ \A i \in DOMAIN errs :
          /\ ~Excluded(errs[i].url)
          /\ IsReconcileDefect(errs[i]) => ~Excluded(Tail(errs[i].err))

\* a finished crawl of the root, which has an anchor to the excluded host
\* and a mailto anchor: a fetch of either would fail, nothing was recorded
\* for the root and run wrote nothing
C11_Witness ==
    /\ Returned /\ ~stopSeen
    /\ Root \in DOMAIN needs /\ needs[Root] = <<>>
    /\ \E l \in Dropped(Root) :
          HasPrefix(l, <<"mailto:">>) /\ Get(l).err # NoErr
    /\ \E l \in Dropped(Root) :
          HasPrefix(l, <<"http://e/">>) /\ Get(l).res.status # "200 OK"
    /\ output = <<>> /\ exitCode = 0

----------------------------------------------------------------------------
(* C12 *)

\* every URL handed to a crawler is one the site answers without error, and
\* the fragment of every recorded link is an id of the page it leads to
CleanCrawl ==
    /\ \A u \in Range(dispatched) : Outcome(u).err = NoErr
    /\ \A s \in DOMAIN needs : \A l \in Range(needs[s]) :
          Fragment(l) # <<>> =>
              \E id \in Outcome(ClearFragment(l)).ids : Fragment(l) = <<id>>

\* C12: with no cancellation, when every fetched URL succeeds and the
\* fragment of every recorded link, when not empty, is an id of its target
\* page, run writes no output and returns 0, for every number of crawlers:
\* reconciliation reports no link as failed whose target was fetched.
C12_CleanSiteSilent ==
    (Returned /\ ~stopSeen /\ CleanCrawl) =>
        /\ output = <<>>
        /\ errs = <<>>
        /\ exitCode = 0

\* two crawlers, three pages fetched, one of them not HTML and so without
\* ids, links with and without fragment among those recorded
C12_Witness ==
    /\ Returned /\ ~stopSeen /\ CleanCrawl /\ crawlers = 2
    /\ Cardinality(DOMAIN crawled) >= 3
    /\ \E u \in DOMAIN crawled : crawled[u] = {}
    /\ \E s \in DOMAIN needs : \E l \in Range(needs[s]) : Fragment(l) # <<>>
    /\ \E s \in DOMAIN needs : \E l \in Range(needs[s]) : Fragment(l) = <<>>

----------------------------------------------------------------------------
(* C13 *)

\* the URLs whose fetch has returned in a crawler
FetchReturned ==
    Range(dispatched) \ {worker[w].url : w \in {v \in DOMAIN worker : worker[v].at = "fetch"}}

\* the URLs whose result the loop has received
Received ==
    Range(dispatched) \
        {worker[w].url : w \in {v \in DOMAIN worker : worker[v].at \in {"fetch", "send"}}}

\* fetch(u, ...) returns a nil error: the GET succeeds with status 200
FetchOK(u) == Get(u).err = NoErr /\ Get(u).res.status = "200 OK"

\* C13 as claimed: at every point of a run, reconciliation included,
\* crawled has an entry for U if and only if a fetch of U has returned
\* without a transport or status error.
C13_EntryIffFetched ==
    DOMAIN crawled = {u \in FetchReturned : FetchOK(u)}

\* C13 as amended: at every point of a run, reconciliation included,
\* crawled has an entry for U if and only if the loop has received the
\* result of a fetch of U and it carried no error; a fetch that has
\* returned in a crawler whose send the loop has not taken has no entry.
\* When the loop ends with no cancellation every fetch that returned has
\* been received.
C13_EntryIffReceived ==
    /\ DOMAIN crawled = {u \in Received : FetchOK(u)}
    /\ (pc # "loop" /\ ~stopSeen) => Received = Range(dispatched)

\* reconciliation starts on a cancelled run: one page has its entry, the
\* fetch of another has returned without error in a crawler that still
\* holds the result, and that page has no entry
C13_Witness ==
    /\ pc = "reconcile" /\ stopSeen
    /\ DOMAIN crawled # {}
    /\ \E w \in DOMAIN worker :
          /\ worker[w].at = "send"
          /\ FetchOK(worker[w].url)
          /\ worker[w].url \notin DOMAIN crawled
    /\ \E u \in Range(dispatched) : ~FetchOK(u) /\ u \in Received

----------------------------------------------------------------------------
(* C14 *)

\* the crawlers that have received a URL and whose result the loop has not
\* received: the fetch is running, or has returned and the send blocks
Busy == {w \in DOMAIN worker : worker[w].at \in {"fetch", "send"}}

\* C14: at every moment openFetchs is between 0 and the number of crawlers
\* and equals the number of crawlers that have received a URL and whose
\* result the loop has not yet received; so at most that many fetches are
\* outstanding, however long the queue.
C14_InFlightBounded ==
    /\ openFetchs \in 0..crawlers
    /\ openFetchs = Cardinality(Busy)
    /\ Cardinality(DOMAIN worker) = crawlers

\* every crawler is busy, one of them blocked in its send, and URLs wait in
\* the queue
C14_Witness ==
    /\ pc = "loop"
    /\ openFetchs = crawlers
    /\ Len(queue) > 0
    /\ \E w \in DOMAIN worker : worker[w].at = "send"
    /\ Len(dispatched) > 1

----------------------------------------------------------------------------
(* C15 *)

\* C15: a cancelled run still writes what it learned: the output is the
\* lines of errs, it holds the line of every fetch error recorded before
\* the cancellation, and, for every link recorded in needs whose target has
\* no entry in crawled when the loop ends (its fetch failed, or it was not
\* reached), the line "failed to fetch: <link>" against the source.
C15_CancelledStillReports ==
    (Returned /\ stopSeen) =>
        /\ output = [i \in 1..Len(errs) |-> Line(errs[i])]
        /\ \A u \in Range(dispatched) :
              (u \in Received /\ ~FetchOK(u)) =>
                  Line([url |-> u, err |-> Outcome(u).err]) \in Range(output)
        /\ \A s \in DOMAIN needs : \A l \in Range(needs[s]) :
              ClearFragment(l) \notin DOMAIN crawled =>
                  Line([url |-> s, err |-> FailedToFetch(l)]) \in Range(output)

\* a cancelled run: the fetch of one page had failed, another page was
\* still waiting in the queue, and the links to both are in the output as
\* failed with the error of the first
C15_Witness ==
    /\ Returned /\ stopSeen /\ exitCode = 3
    /\ \E s \in DOMAIN needs : \E l1, l2 \in Range(needs[s]) :
          /\ ClearFragment(l1) \in Received /\ ~FetchOK(ClearFragment(l1))
          /\ ClearFragment(l2) \in Range(queue)
          /\ Line([url |-> s, err |-> FailedToFetch(l1)]) \in Range(output)
          /\ Line([url |-> s, err |-> FailedToFetch(l2)]) \in Range(output)
          /\ Line([url |-> ClearFragment(l1),
                    err |-> Outcome(ClearFragment(l1)).err])
                \in Range(output)

----------------------------------------------------------------------------
(* C16 *)

\* the fragment of link l is an id of the page the site serves for it
FragmentThere(l) ==
    \E id \in Outcome(ClearFragment(l)).ids : Fragment(l) = <<id>>

\* the defects with which errs answers link l of source s
MissingFor(s, l) == Occ(errs, [url |-> s, err |-> MissingFragment(l)])
FailedFor(s, l) == Occ(errs, [url |-> s, err |-> FailedToFetch(l)])

\* C16: when recorded links, of one source or of several, lead to the same
\* target with different fragments, the target is handed to a crawler once,
\* and on a fetched target reconciliation answers each link by itself: a
\* "missing fragment" against its source for each time the source lists a
\* link whose fragment is not empty and is no id of the target, nothing for
\* a link whose fragment is one.
C16_OneFetchManyFragments ==
    (Returned /\ ~stopSeen) =>
        \A s1, s2 \in DOMAIN needs :
            \A l1 \in Range(needs[s1]), l2 \in Range(needs[s2]) :
                (/\ ClearFragment(l1) = ClearFragment(l2)
                 /\ Fragment(l1) # Fragment(l2)) =>
                    /\ Occ(dispatched, ClearFragment(l1)) = 1
                    /\ FetchOK(ClearFragment(l1)) =>
                          /\ FailedFor(s1, l1) = 0
                          /\ MissingFor(s1, l1) =
                                IF Fragment(l1) = <<>> \/ FragmentThere(l1)
                                    THEN 0
                                ELSE Occ(needs[s1], l1)

\* the root and the inner page link to the external page, which has the
\* id f: one with the fragment f, the other with the fragment g, and only
\* the second is reported
C16_Witness ==
    /\ Returned /\ ~stopSeen
    /\ \E s1, s2 \in DOMAIN needs :
         \E l1 \in Range(needs[s1]), l2 \in Range(needs[s2]) :
            /\ s1 # s2
            /\ ClearFragment(l1) = ClearFragment(l2)
            /\ Fragment(l1) # <<>> /\ Fragment(l2) # <<>>
            /\ Fragment(l1) # Fragment(l2)
            /\ FragmentThere(l1) /\ MissingFor(s1, l1) = 0
            /\ ~FragmentThere(l2) /\ MissingFor(s2, l2) = 1
            /\ Occ(dispatched, ClearFragment(l1)) = 1

----------------------------------------------------------------------------
(* C17 *)

FragmentFree(u) == HashIndex(u) = 0

\* C17: every URL in the queue and in the queued set, and every key of
\* crawled, is a URL without fragment, whatever the root given to run; so
\* no two URLs queued, handed to a crawler or recorded in crawled differ
\* only by a fragment.
C17_FragmentFreeURLs ==
    /\ \A u \in Range(queue) \cup queued \cup DOMAIN crawled : FragmentFree(u)
    /\ \A u, v \in queued \cup Range(dispatched) \cup DOMAIN crawled :
          ClearFragment(u) = ClearFragment(v) => u = v

\* a run started on a root with a fragment has returned: the root page was
\* fetched twice and is recorded in crawled under two keys, with and
\* without the fragment, and the inner page, which is there and has
\* anchors, was fetched as a page outside the root
C17_Witness ==
    /\ Returned /\ ~stopSeen
    /\ ~FragmentFree(base)
    /\ {base, ClearFragment(base)} \subseteq DOMAIN crawled
    /\ {base, ClearFragment(base)} \subseteq Range(dispatched)
    /\ PageA \in DOMAIN crawled /\ PageA \notin DOMAIN needs
    /\ site[PageA].html /\ site[PageA].hrefs # <<>>

----------------------------------------------------------------------------
(* C18 *)

Lines(es) == [i \in 1..Len(es) |-> Line(es[i])]

InNeeds(u) == u \in DOMAIN needs

\* the sources of needs in the order in which they were entered; with one
\* crawler this is the order in which the pages were fetched
InsertionOrder == SelectSeq(dispatched, InNeeds)

\* what run writes when reconciliation walks the sources in order
OutputFor(order) == Lines(FetchErrors(errs) \o CheckSources(order))

\* C18 as claimed: for a fixed site and a fixed number of crawlers, one
\* here, with no cancellation, the defect lines come in the same order in
\* every run: reconciliation walks the sources of needs in a stable order,
\* the order of their insertion.
C18_StableOrder ==
    (Returned /\ ~stopSeen /\ crawlers = 1) => output = OutputFor(InsertionOrder)

\* C18 as amended: the lines of the fetch errors come first, in the order
\* in which the loop received them; then the lines of reconciliation,
\* those of one source together and in the order of its links, the sources
\* in some order, which range over a map does not fix.
C18_OrderUpToSources ==
    Returned =>
        /\ \E order \in Orders(DOMAIN needs) : output = OutputFor(order)
        /\ \A i, j \in DOMAIN errs :
              (i < j /\ IsReconcileDefect(errs[i])) => IsReconcileDefect(errs[j])

\* one crawler, no cancellation: run wrote the lines in the order of
\* insertion, and another order of the sources gives another output
C18_Witness ==
    /\ Returned /\ ~stopSeen /\ crawlers = 1
    /\ output = OutputFor(InsertionOrder)
    /\ \E order \in Orders(DOMAIN needs) : OutputFor(order) # output
    /\ \E i \in DOMAIN errs : ~IsReconcileDefect(errs[i])

----------------------------------------------------------------------------
(* C19 *)

\* the site answers u with status 200 and a body that is not HTML
NotHTML(u) == FetchOK(u) /\ ~Get(u).res.html

\* C19: a target fetched without error whose body is not HTML has an entry
\* in crawled, with an empty id set, as soon as the loop has received its
\* result; and in the errs of reconciliation a recorded link to it without
\* fragment has no defect, a recorded link to it with a fragment has
\* "missing fragment", once per time it is listed, and no link to it has
\* "failed to fetch".
C19_NotHTMLReached ==
    /\ \A u \in Received :
          NotHTML(u) => (u \in DOMAIN crawled /\ crawled[u] = {})
    /\ pc \in {"report", "done"} =>
          \A s \in DOMAIN needs : \A l \in Range(needs[s]) :
              (ClearFragment(l) \in Received /\ NotHTML(ClearFragment(l))) =>
                  /\ FailedFor(s, l) = 0
                  /\ MissingFor(s, l) =
                        IF Fragment(l) = <<>> THEN 0 ELSE Occ(needs[s], l)

\* the external page is not HTML and the root links to it twice, without
\* fragment and with one: run wrote the one line, "missing fragment"
C19_Witness ==
    /\ Returned /\ ~stopSeen
    /\ NotHTML(PageX) /\ PageX \in DOMAIN crawled /\ crawled[PageX] = {}
    /\ \E s \in DOMAIN needs : \E l1, l2 \in Range(needs[s]) :
          /\ ClearFragment(l1) = PageX /\ Fragment(l1) = <<>>
          /\ ClearFragment(l2) = PageX /\ Fragment(l2) # <<>>
          /\ output = << Line([url |-> s, err |-> MissingFragment(l2)]) >>
    /\ exitCode = 1

----------------------------------------------------------------------------
(* C20 *)

\* the places of URL u, by number: 1 waiting in the queue, 2 in flight at
\* a crawler, 3 a key of crawled, 4 in errs with the error of its fetch
PlacesOf(u) ==
    {k \in 1..4 :
        \/ k = 1 /\ u \in Range(queue)
        \/ k = 2 /\ \E w \in Busy : worker[w].url = u
        \/ k = 3 /\ u \in DOMAIN crawled
        \/ k = 4 /\ \E i \in DOMAIN errs :
                        errs[i].url = u /\ ~IsReconcileDefect(errs[i])}

\* C20: at every step of the loop each URL of the queued set is in exactly
\* one of four places: in the queue, in flight at a crawler, a key of
\* crawled, or in errs with the error of its fetch; it is there once, so
\* the queue holds no duplicate; nothing else is in any of the places; and
\* when the loop ends with no cancellation every queued URL is a key of
\* crawled or in errs.
C20_FourPlaces ==
    /\ pc = "loop" =>
          /\ \A u \in queued :
                /\ Cardinality(PlacesOf(u)) = 1
                /\ Cardinality({w \in Busy : worker[w].url = u}) <= 1
                /\ Cardinality({i \in DOMAIN errs : errs[i].url = u}) <= 1
          /\ NoDuplicate(queue)
          /\ Range(queue) \cup {worker[w].url : w \in Busy} \cup DOMAIN crawled
                \cup {errs[i].url : i \in DOMAIN errs} = queued
    /\ (pc # "loop" /\ ~stopSeen) =>
          \A u \in queued : PlacesOf(u) \in {{3}, {4}}

\* two crawlers in the loop, three URLs queued: one is a key of crawled,
\* one is in errs and one, queued after these two were dispatched, is in
\* flight
C20_Witness ==
    /\ pc = "loop" /\ crawlers = 2
    /\ Cardinality(queued) = 3
    /\ \A k \in 2..4 : \E u \in queued : PlacesOf(u) = {k}

====
